---- MODULE Spec2Model ----
(***************************************************************************)
(* line-position: Lines::parse builds a vector of Line {start, end} spans  *)
(* from an input string; Lines::position scans the vector for the span     *)
(* that holds a byte offset; Lines::num_lines returns the vector's length. *)
(*                                                                         *)
(* The input is a sequence of bytes (str::len and the span bounds are byte *)
(* counts).  Offsets are 0-based as in the code; TLA+ sequences are        *)
(* 1-based, so the byte at offset o is input[o + 1] and the span of line   *)
(* number n is lines[n].                                                   *)
(***************************************************************************)
EXTENDS Integers, Sequences, FiniteSets

VARIABLES input, phase, lines, pc, input_offset, cursor, line_number, ret

vars == <<input, phase, lines, pc, input_offset, cursor, line_number, ret>>

----------------------------------------------------------------------------
(* Bounds of the model *)

\* longest input text, in bytes
MaxLen == 4

\* largest offset a caller passes to position
MaxOffset == 6

\* the threads that share the built index
Callers == {"c1", "c2"}

----------------------------------------------------------------------------
(* Bytes and delimiters *)

\* '\r'
CR == 13

\* '\n'
LF == 10

\* 'a': any byte that is neither '\r' nor '\n'
OtherByte == 97

Bytes == {CR, LF, OtherByte}

\* "\r\n"
CRLF == <<CR, LF>>

\* "\n"
LFOnly == <<LF>>

Inputs == UNION {[1..n -> Bytes] : n \in 0..MaxLen}

Offsets == 0..MaxOffset

----------------------------------------------------------------------------
(* str::contains and str::split_inclusive, for a non-empty pattern *)

\* pat occurs in s starting at index i (1-based)
MatchAt(s, pat, i) ==
    /\ i >= 1
    /\ i + Len(pat) - 1 <= Len(s)
    /\ \A k \in 1..Len(pat) : s[i + k - 1] = pat[k]

contains(s, pat) == \E i \in 1..Len(s) : MatchAt(s, pat, i)

\* The segments from index `from` on, the scan standing at index i: matches are
\* taken left to right and do not overlap, each segment keeps its terminator,
\* and an empty last segment is left out.
RECURSIVE SplitFrom(_, _, _, _)
SplitFrom(s, pat, from, i) ==
    IF i > Len(s)
    THEN IF from <= Len(s) THEN <<SubSeq(s, from, Len(s))>> ELSE <<>>
    ELSE IF MatchAt(s, pat, i)
         THEN <<SubSeq(s, from, i + Len(pat) - 1)>>
                  \o SplitFrom(s, pat, i + Len(pat), i + Len(pat))
         ELSE SplitFrom(s, pat, from, i + 1)

\* Faulty variant: str::split_terminator's sibling that keeps the empty piece
\* after a trailing delimiter (and yields one empty piece for the empty text).
split_keep_empty(s, pat) ==
    LET segs == SplitFrom(s, pat, 1, 1)
    IN  IF s = <<>> \/ MatchAt(s, pat, Len(s) - Len(pat) + 1)
        THEN Append(segs, <<>>)
        ELSE segs

\* Faulty variant: only the first occurrence splits (splitn(2, ..)).
split_first_only(s, pat) ==
    LET hits == {i \in 1..Len(s) : MatchAt(s, pat, i)}
    IN  IF hits = {}
        THEN SplitFrom(s, pat, 1, 1)
        ELSE LET i    == CHOOSE h \in hits : \A g \in hits : h <= g
                 stop == i + Len(pat) - 1
             IN  IF stop < Len(s)
                 THEN <<SubSeq(s, 1, stop), SubSeq(s, stop + 1, Len(s))>>
                 ELSE <<SubSeq(s, 1, stop)>>

\* Faulty variant: str::split, which drops the delimiters and keeps the empty
\* pieces.
RECURSIVE SplitExclusiveFrom(_, _, _, _)
SplitExclusiveFrom(s, pat, from, i) ==
    IF i > Len(s)
    THEN <<SubSeq(s, from, Len(s))>>
    ELSE IF MatchAt(s, pat, i)
         THEN <<SubSeq(s, from, i - 1)>>
                  \o SplitExclusiveFrom(s, pat, i + Len(pat), i + Len(pat))
         ELSE SplitExclusiveFrom(s, pat, from, i + 1)

split_exclusive(s, pat) == SplitExclusiveFrom(s, pat, 1, 1)

split_inclusive(s, pat) == SplitFrom(s, pat, 1, 1)

----------------------------------------------------------------------------
(* Lines::parse *)

\* Faulty variant: the delimiter is "\n" whatever the input holds.
line_ending_lf(s) == LFOnly

\* match input.contains("\r\n") { true => "\r\n", false => "\n" }
line_ending(s) == IF contains(s, CRLF) THEN CRLF ELSE LFOnly

\* Faulty variant: the end is the segment's length, the running start left out.
line_end_len(start, input_line) == Len(input_line)

\* let end = start + input_line.len();
line_end(start, input_line) == start + Len(input_line)

\* the for loop: segs[k..] still to visit, `start` the running cursor, acc the
\* vector pushed so far
RECURSIVE parse_loop(_, _, _, _)
parse_loop(segs, k, start, acc) ==
    IF k > Len(segs)
    THEN acc
    ELSE LET end  == line_end(start, segs[k])
             line == [start |-> start, end |-> end]
         IN  parse_loop(segs, k + 1, end, Append(acc, line))

parse(s) == parse_loop(split_inclusive(s, line_ending(s)), 1, 0, <<>>)

----------------------------------------------------------------------------
(* Lines::position and Lines::num_lines *)

\* Faulty variant: the end of the line is taken as inside it.
in_line_closed(line, off) == off >= line.start /\ off <= line.end

\* Faulty variant: the start of the line is taken as outside it.
in_line_open(line, off) == off > line.start /\ off < line.end

\* input_offset >= line.start && input_offset < line.end
in_line(line, off) == off >= line.start /\ off < line.end

\* Faulty variant: the column is the offset in the text, not in the line.
OkPositionAbsolute(n, off, line) ==
    [tag |-> "Ok", line |-> n, offset |-> off]

\* Ok(LinePosition { line: line_number, offset: input_offset - line.start })
OkPosition(n, off, line) ==
    [tag |-> "Ok", line |-> n, offset |-> off - line.start]

\* Err(LinesError::OffsetOutOfBounds)
OffsetOutOfBounds == [tag |-> "OffsetOutOfBounds"]

\* self.lines.len()
NumLinesValue(ls) == [tag |-> "NumLines", n |-> Len(ls)]

\* no call has returned to this caller yet
NoResult == [tag |-> "None"]

----------------------------------------------------------------------------
(* The state machine *)

TypeOK ==
    /\ input \in Inputs
    /\ phase \in {"new", "built"}
    /\ pc \in [Callers -> {"idle", "scan"}]
    /\ input_offset \in [Callers -> Offsets]
    /\ cursor \in [Callers -> 0..(MaxLen + 1)]
    /\ line_number \in [Callers -> 0..(MaxLen + 1)]

Init ==
    /\ input \in Inputs
    /\ phase = "new"
    /\ lines = <<>>
    /\ pc = [c \in Callers |-> "idle"]
    /\ input_offset = [c \in Callers |-> 0]
    /\ cursor = [c \in Callers |-> 0]
    /\ line_number = [c \in Callers |-> 0]
    /\ ret = [c \in Callers |-> NoResult]

\* let lines = Lines::parse(input);
ParseCall ==
    /\ phase = "new"
    /\ lines' = parse(input)
    /\ phase' = "built"
    /\ UNCHANGED <<input, pc, input_offset, cursor, line_number, ret>>

\* Faulty variant: the line counter starts at 0.
PositionCallFromZero(c, off) ==
    /\ phase = "built"
    /\ pc[c] = "idle"
    /\ pc' = [pc EXCEPT ![c] = "scan"]
    /\ input_offset' = [input_offset EXCEPT ![c] = off]
    /\ cursor' = [cursor EXCEPT ![c] = 1]
    /\ line_number' = [line_number EXCEPT ![c] = 0]
    /\ ret' = [ret EXCEPT ![c] = NoResult]
    /\ UNCHANGED <<input, phase, lines>>

\* entry of position(&self, input_offset): line_number = 1 and the iterator
\* over &self.lines stands on the first line
PositionCall(c, off) ==
    /\ phase = "built"
    /\ pc[c] = "idle"
    /\ pc' = [pc EXCEPT ![c] = "scan"]
    /\ input_offset' = [input_offset EXCEPT ![c] = off]
    /\ cursor' = [cursor EXCEPT ![c] = 1]
    /\ line_number' = [line_number EXCEPT ![c] = 1]
    /\ ret' = [ret EXCEPT ![c] = NoResult]
    /\ UNCHANGED <<input, phase, lines>>

\* the return of a call: the frame's locals are gone
Return(c, value) ==
    /\ pc' = [pc EXCEPT ![c] = "idle"]
    /\ cursor' = [cursor EXCEPT ![c] = 0]
    /\ line_number' = [line_number EXCEPT ![c] = 0]
    /\ ret' = [ret EXCEPT ![c] = value]

\* Faulty variant: the scan consumes the vector (a draining iterator), so a
\* line that does not hold the offset is removed from the index.
PositionStepDraining(c) ==
    /\ pc[c] = "scan"
    /\ IF Len(lines) = 0
       THEN /\ Return(c, OffsetOutOfBounds)
            /\ UNCHANGED <<input_offset, lines>>
       ELSE IF in_line(Head(lines), input_offset[c])
            THEN /\ Return(c, OkPosition(line_number[c], input_offset[c],
                                          Head(lines)))
                 /\ UNCHANGED <<input_offset, lines>>
            ELSE /\ lines' = Tail(lines)
                 /\ line_number' = [line_number EXCEPT ![c] = @ + 1]
                 /\ UNCHANGED <<pc, input_offset, cursor, ret>>
    /\ UNCHANGED <<input, phase>>

\* one iteration of the for loop of position, or the fall through to Err
PositionStep(c) ==
    /\ pc[c] = "scan"
    /\ IF cursor[c] > Len(lines)
       THEN /\ Return(c, OffsetOutOfBounds)
            /\ UNCHANGED input_offset
       ELSE IF in_line(lines[cursor[c]], input_offset[c])
            THEN /\ Return(c, OkPosition(line_number[c], input_offset[c],
                                          lines[cursor[c]]))
                 /\ UNCHANGED input_offset
            ELSE /\ cursor' = [cursor EXCEPT ![c] = @ + 1]
                 /\ line_number' = [line_number EXCEPT ![c] = @ + 1]
                 /\ UNCHANGED <<pc, input_offset, ret>>
    /\ UNCHANGED <<input, phase, lines>>

\* num_lines(&self)
NumLinesCall(c) ==
    /\ phase = "built"
    /\ pc[c] = "idle"
    /\ Return(c, NumLinesValue(lines))
    /\ input_offset' = [input_offset EXCEPT ![c] = 0]
    /\ UNCHANGED <<input, phase, lines>>

Next ==
    \/ ParseCall
    \/ \E c \in Callers, off \in Offsets : PositionCall(c, off)
    \/ \E c \in Callers : PositionStep(c)
    \/ \E c \in Callers : NumLinesCall(c)

Spec == Init /\ [][Next]_vars

----------------------------------------------------------------------------
(* Vocabulary of the properties: the text seen without the index *)

\* the byte at 0-based offset o of the input
ByteAt(o) == input[o + 1]

TextLen == Len(input)

\* the input holds "\r\n" somewhere
HasCRLF ==
    \E o \in 0..(TextLen - 2) : ByteAt(o) = CR /\ ByteAt(o + 1) = LF

\* length of the delimiter chosen for the whole input
DelimLen == IF HasCRLF THEN 2 ELSE 1

\* an occurrence of the chosen delimiter starts at offset o
DelimAt(o) ==
    /\ o >= 0
    /\ o + DelimLen <= TextLen
    /\ IF HasCRLF
       THEN ByteAt(o) = CR /\ ByteAt(o + 1) = LF
       ELSE ByteAt(o) = LF

\* the offsets one past an occurrence of the chosen delimiter
DelimEnds == {o + DelimLen : o \in {q \in 0..TextLen : DelimAt(q)}}

\* a "\n" that no "\r" precedes sits at offset o
LoneLFAt(o) ==
    /\ o >= 0
    /\ o < TextLen
    /\ ByteAt(o) = LF
    /\ (o = 0 \/ ByteAt(o - 1) /= CR)

\* the span of line number i holds offset off
Holds(i, off) == lines[i].start <= off /\ off < lines[i].end

\* the ends of the spans that another span follows: the places parse split at
SplitPoints == {lines[i].end : i \in 1..(Len(lines) - 1)}

\* a position call of caller c has returned
PositionReturned(c) ==
    /\ phase = "built"
    /\ pc[c] = "idle"
    /\ ret[c].tag \in {"Ok", "OffsetOutOfBounds"}

\* a num_lines call of caller c has returned
NumLinesReturned(c) ==
    /\ phase = "built"
    /\ pc[c] = "idle"
    /\ ret[c].tag = "NumLines"

SetMax(S) == CHOOSE x \in S : \A y \in S : y <= x

----------------------------------------------------------------------------
\* C1: for every input and every offset below the input's length exactly one
\* span holds the offset, and a position call on that offset returns Ok with
\* the 1-indexed number of that span as line and offset - span.start as the
\* 0-indexed column.
C1_InRangeResolves ==
    phase = "built" =>
        /\ \A off \in 0..(TextLen - 1) :
               Cardinality({i \in 1..Len(lines) : Holds(i, off)}) = 1
        /\ \A c \in Callers :
               (PositionReturned(c) /\ input_offset[c] < TextLen) =>
                   \E i \in 1..Len(lines) :
                       /\ Holds(i, input_offset[c])
                       /\ ret[c] = [tag |-> "Ok", line |-> i,
                                    offset |-> input_offset[c] - lines[i].start]

\* a call has resolved an offset to a column past 0 of the second line
C1_Witness ==
    \E c \in Callers :
        /\ PositionReturned(c)
        /\ input_offset[c] < TextLen
        /\ ret[c].tag = "Ok"
        /\ ret[c].line = 2
        /\ ret[c].offset = 1

\* C2: position returns OffsetOutOfBounds for the offset equal to the input's
\* length and for every larger one, the empty input included, and returns it
\* for no offset below the length; it returns no other error.
C2_OutOfBounds ==
    \A c \in Callers :
        PositionReturned(c) =>
            /\ input_offset[c] >= TextLen => ret[c] = OffsetOutOfBounds
            /\ ret[c].tag /= "Ok" =>
                   (ret[c] = OffsetOutOfBounds /\ input_offset[c] >= TextLen)

\* one caller got the error at exactly the length of a non-empty input, the
\* other one past it
C2_Witness ==
    \E c, d \in Callers :
        /\ PositionReturned(c) /\ PositionReturned(d)
        /\ TextLen > 0
        /\ input_offset[c] = TextLen
        /\ input_offset[d] > TextLen
        /\ ret[c] = OffsetOutOfBounds
        /\ ret[d] = OffsetOutOfBounds

\* the input ends with an occurrence of the chosen delimiter
EndsWithDelim == TextLen \in DelimEnds

\* C3: num_lines counts a trailing delimiter as the end of the last line: with
\* N occurrences of the chosen delimiter it returns N when the input ends with
\* the delimiter, N + 1 when a non-empty remainder follows the last
\* occurrence, and 0 for the empty input.
C3_NumLines ==
    \A c \in Callers :
        NumLinesReturned(c) =>
            ret[c].n = IF TextLen = 0 THEN 0
                       ELSE IF EndsWithDelim
                            THEN Cardinality(DelimEnds)
                            ELSE Cardinality(DelimEnds) + 1

\* num_lines has returned 2 for an input of two terminated lines
C3_Witness ==
    \E c \in Callers :
        /\ NumLinesReturned(c)
        /\ EndsWithDelim
        /\ Cardinality(DelimEnds) = 2
        /\ ret[c].n = 2

\* the ends of all spans
SpanEnds == {lines[i].end : i \in 1..Len(lines)}

\* the offsets one past a "\r\n"
CrLfEnds ==
    {o + 2 : o \in {q \in 0..(TextLen - 2) :
                        ByteAt(q) = CR /\ ByteAt(q + 1) = LF}}

\* the offsets one past a "\n"
LfEnds == {o + 1 : o \in {q \in 0..(TextLen - 1) : ByteAt(q) = LF}}

\* the end of a non-empty text, where the last span ends whatever the bytes
TextEnd == IF TextLen > 0 THEN {TextLen} ELSE {}

\* C4 as stated: the delimiter is chosen once for the whole input: with a
\* "\r\n" in the input parse splits only after occurrences of "\r\n" and no
\* span ends at a "\n" that lacks a "\r" before it; without a "\r\n" parse
\* splits after every "\n".
C4_NoSpanEndsAtLoneLF ==
    phase = "built" =>
        IF HasCRLF
        THEN /\ SplitPoints = CrLfEnds \ {TextLen}
             /\ \A o \in 0..(TextLen - 1) :
                    LoneLFAt(o) => (o + 1) \notin SpanEnds
        ELSE SpanEnds = LfEnds \cup TextEnd

\* C4 as amended: with a "\r\n" in the input parse splits only after
\* occurrences of "\r\n"; a "\n" that lacks a "\r" before it lies inside a
\* line, and a span ends at it only when it is the last byte of the input,
\* where the last span ends with the text; without a "\r\n" parse splits
\* after every "\n".
C4_GlobalDelimiter ==
    phase = "built" =>
        IF HasCRLF
        THEN /\ SplitPoints = CrLfEnds \ {TextLen}
             /\ SpanEnds = CrLfEnds \cup TextEnd
             /\ \A o \in 0..(TextLen - 1) :
                    LoneLFAt(o) =>
                        /\ \E i \in 1..Len(lines) : Holds(i, o)
                        /\ (o + 1) \in SpanEnds => o + 1 = TextLen
        ELSE SpanEnds = LfEnds \cup TextEnd

\* an input with a "\r\n" and, before its last byte, a "\n" of its own, parsed
\* into two lines
C4_Witness ==
    /\ phase = "built"
    /\ HasCRLF
    /\ \E o \in 0..(TextLen - 2) : LoneLFAt(o)
    /\ Len(lines) = 2

\* what C5 says of the delimiters: an offset inside an occurrence of the
\* chosen delimiter resolves to the line that occurrence ends, and the offset
\* of the character right after it to column 0 of the line after that one
DelimiterAttribution(c) ==
    \A o \in 0..(TextLen - 1) :
        DelimAt(o) =>
            /\ input_offset[c] \in o..(o + DelimLen - 1) =>
                   /\ ret[c].tag = "Ok"
                   /\ lines[ret[c].line].end = o + DelimLen
            /\ (input_offset[c] = o + DelimLen /\ o + DelimLen < TextLen) =>
                   /\ ret[c].tag = "Ok"
                   /\ ret[c].offset = 0
                   /\ ret[c].line >= 2
                   /\ lines[ret[c].line - 1].end = o + DelimLen

\* C5 as stated: for every span, an offset equal to the span's start resolves
\* to that span with column 0 and an offset equal to the span's end resolves
\* to the next span, line number one higher and column 0; each character of a
\* delimiter goes to the line it terminates.
C5_EndResolvesToNextSpan ==
    \A c \in Callers :
        PositionReturned(c) =>
            /\ \A i \in 1..Len(lines) :
                   /\ input_offset[c] = lines[i].start =>
                          ret[c] = [tag |-> "Ok", line |-> i, offset |-> 0]
                   /\ input_offset[c] = lines[i].end =>
                          ret[c] = [tag |-> "Ok", line |-> i + 1, offset |-> 0]
            /\ DelimiterAttribution(c)

\* C5 as amended: for every span, an offset equal to the span's start resolves
\* to that span with column 0; an offset equal to the end of a span that has a
\* successor resolves to the next span, line number one higher and column 0;
\* the offset equal to the last span's end resolves to no span and returns
\* OffsetOutOfBounds; each character of a delimiter goes to the line it
\* terminates.
C5_Boundaries ==
    \A c \in Callers :
        PositionReturned(c) =>
            /\ \A i \in 1..Len(lines) :
                   /\ input_offset[c] = lines[i].start =>
                          ret[c] = [tag |-> "Ok", line |-> i, offset |-> 0]
                   /\ (input_offset[c] = lines[i].end /\ i < Len(lines)) =>
                          ret[c] = [tag |-> "Ok", line |-> i + 1, offset |-> 0]
                   /\ (input_offset[c] = lines[i].end /\ i = Len(lines)) =>
                          ret[c] = OffsetOutOfBounds
            /\ DelimiterAttribution(c)

\* with "\r\n" chosen, one caller asked for the end of the first of several
\* spans and got line 2, column 0, the other asked for the "\n" of the
\* delimiter before it and got line 1
C5_Witness ==
    \E c, d \in Callers :
        /\ PositionReturned(c) /\ PositionReturned(d)
        /\ HasCRLF
        /\ Len(lines) >= 2
        /\ input_offset[c] = lines[1].end
        /\ ret[c] = [tag |-> "Ok", line |-> 2, offset |-> 0]
        /\ input_offset[d] = lines[1].end - 1
        /\ ret[d].tag = "Ok" /\ ret[d].line = 1

\* the results the callers hold do not depend on who asked or when
ResultsAgree ==
    /\ \A c \in Callers : NumLinesReturned(c) => ret[c].n = Len(lines)
    /\ \A c, d \in Callers :
           /\ (NumLinesReturned(c) /\ NumLinesReturned(d)) => ret[c] = ret[d]
           /\ (PositionReturned(c) /\ PositionReturned(d)
                   /\ input_offset[c] = input_offset[d]) => ret[c] = ret[d]

\* C6: no step of a position or num_lines call, by whichever caller and in
\* whichever interleaving, changes the span sequence of a built index, so
\* num_lines keeps returning the length the index had right after parse and
\* position the same result for the same offset whatever ran before.
C6_QueriesLeaveIndexUnchanged ==
    [][phase = "built" => (lines' = lines /\ ResultsAgree')]_vars

\* both callers hold the result of position on the same offset of the second
\* line
C6_Witness ==
    /\ PositionReturned("c1") /\ PositionReturned("c2")
    /\ input_offset["c1"] = input_offset["c2"]
    /\ ret["c1"].tag = "Ok"
    /\ ret["c1"].line = 2
    /\ ret["c2"] = ret["c1"]

\* C7: the spans of a built index are an ordered contiguous partition of
\* [0, length): start <= end in every span, each span's end is the next
\* span's start, the first start is 0, the last end is the length of the
\* input, and the empty input has no span.
C7_SpansPartition ==
    phase = "built" =>
        /\ \A i \in 1..Len(lines) : lines[i].start <= lines[i].end
        /\ \A i \in 1..(Len(lines) - 1) : lines[i].end = lines[i + 1].start
        /\ Len(lines) > 0 =>
               (lines[1].start = 0 /\ lines[Len(lines)].end = TextLen)
        /\ (TextLen = 0) => lines = <<>>
        /\ (TextLen > 0) => Len(lines) > 0

\* an index of three spans
C7_Witness ==
    /\ phase = "built"
    /\ Len(lines) = 3
    /\ TextLen = MaxLen

\* the number of the rightmost span among ls[lo..hi] whose start is at most
\* off, by bisection; lo - 1 when there is none
RECURSIVE Rightmost(_, _, _, _)
Rightmost(ls, off, lo, hi) ==
    IF lo > hi
    THEN hi
    ELSE LET mid == (lo + hi) \div 2
         IN  IF ls[mid].start <= off
             THEN Rightmost(ls, off, mid + 1, hi)
             ELSE Rightmost(ls, off, lo, mid - 1)

\* the lookup by binary search on span.start
BinarySearchPosition(ls, off) ==
    LET r == Rightmost(ls, off, 1, Len(ls))
    IN  IF r >= 1 /\ off < ls[r].end
        THEN [tag |-> "Ok", line |-> r, offset |-> off - ls[r].start]
        ELSE [tag |-> "OffsetOutOfBounds"]

\* C8: for every built index and every offset, in range or not, the linear
\* scan of position returns what the binary search for the rightmost span
\* with start <= offset returns: the same Ok(line, column) or the same
\* OffsetOutOfBounds, the empty index included.
C8_LinearEqualsBinarySearch ==
    \A c \in Callers :
        PositionReturned(c) =>
            ret[c] = BinarySearchPosition(lines, input_offset[c])

\* the scan has resolved an offset to the third of three spans while the other
\* caller got the error
C8_Witness ==
    \E c, d \in Callers :
        /\ PositionReturned(c) /\ PositionReturned(d)
        /\ Len(lines) >= 3
        /\ ret[c].tag = "Ok" /\ ret[c].line = 3
        /\ ret[d] = OffsetOutOfBounds

\* the ends of the occurrences of the chosen delimiter that end at or before
\* offset off
DelimEndsUpTo(off) == {e \in DelimEnds : e <= off}

\* C9: for every offset below the input's length, the line position returns
\* is 1 plus the number of occurrences of the chosen delimiter ending at or
\* before the offset, and the column is the offset minus the end of the last
\* such occurrence (minus 0 without one); the last offset of the input
\* resolves to line num_lines().
C9_LineCountsDelimiters ==
    \A c \in Callers :
        (PositionReturned(c) /\ input_offset[c] < TextLen) =>
            LET before == DelimEndsUpTo(input_offset[c])
                base   == IF before = {} THEN 0 ELSE SetMax(before)
            IN  /\ ret[c] = [tag |-> "Ok",
                             line |-> 1 + Cardinality(before),
                             offset |-> input_offset[c] - base]
                /\ input_offset[c] = TextLen - 1 => ret[c].line = Len(lines)

\* with "\r\n" chosen, an offset on the "\n" of a second delimiter is on line
\* 2: the occurrence it points into is not counted
C9_Witness ==
    \E c \in Callers :
        /\ PositionReturned(c)
        /\ HasCRLF
        /\ Cardinality(DelimEnds) = 2
        /\ (input_offset[c] + 1) \in DelimEnds
        /\ ret[c].tag = "Ok" /\ ret[c].line = 2 /\ ret[c].offset = 1

\* C10: every span of a built index is non-empty, a line that is only a
\* delimiter is a span of the delimiter's length, also at the start of the
\* input and after another delimiter; so num_lines is at most the length of
\* the input and the span starts increase strictly.
C10_SpansNonEmpty ==
    phase = "built" =>
        /\ \A i \in 1..Len(lines) : lines[i].start < lines[i].end
        /\ \A i \in 1..Len(lines) :
               DelimAt(lines[i].start) =>
                   lines[i].end - lines[i].start = DelimLen
        /\ Len(lines) <= TextLen
        /\ \A i \in 1..(Len(lines) - 1) : lines[i].start < lines[i + 1].start
        /\ \A c \in Callers : NumLinesReturned(c) => ret[c].n <= TextLen

\* an input that starts with two "\r\n" in a row: two spans of length 2
C10_Witness ==
    /\ phase = "built"
    /\ HasCRLF
    /\ DelimAt(0) /\ DelimAt(2)
    /\ Len(lines) = 2
    /\ lines[2] = [start |-> 2, end |-> 4]

====
